---- MODULE Spec2Model ----
(***************************************************************************)
(* Model of the inmate tracker's batch run (main.py): two browser-based    *)
(* source adapters, the collector, the reconciliation loop against the     *)
(* ledger (database.json), and the three saves (current_inmates.json,      *)
(* database.json, metadata.json).  Text is modelled as sequences of        *)
(* one-character strings, files as tagged contents.                        *)
(***************************************************************************)
EXTENDS Integers, Sequences, FiniteSets, TLC

\* ------------------------------------------------------------------ bounds
\* Number of consecutive runs of the script that are explored.
MaxRuns == 2
\* Longest listing (inmate blocks / table rows) a site returns.
MaxBlocks == 2

\* ------------------------------------------------------- display names
JohnSmith == <<"J", "o", "h", "n", " ", "S", "m", "i", "t", "h">>
JaneDoe == <<"J", "a", "n", "e", " ", "D", "o", "e">>

\* Names a Crawford County listing may show.
CrawfordNames == {JohnSmith}
\* Names a Sebastian County listing may show.
SebastianNames == {JaneDoe}

\* --------------------------------------------------------- text helpers
LowerCase == <<"a", "b", "c", "d", "e", "f", "g", "h", "i", "j", "k", "l", "m",
               "n", "o", "p", "q", "r", "s", "t", "u", "v", "w", "x", "y", "z">>
UpperCase == <<"A", "B", "C", "D", "E", "F", "G", "H", "I", "J", "K", "L", "M",
               "N", "O", "P", "Q", "R", "S", "T", "U", "V", "W", "X", "Y", "Z">>
Digits == {"0", "1", "2", "3", "4", "5", "6", "7", "8", "9"}

\* str.upper() on one character.
upper(c) ==
    IF \E i \in DOMAIN LowerCase : LowerCase[i] = c
    THEN UpperCase[CHOOSE i \in DOMAIN LowerCase : LowerCase[i] = c]
    ELSE c

\* The characters the pattern [^A-Z0-9_] does not match.
KeptChars == {UpperCase[i] : i \in DOMAIN UpperCase} \cup Digits \cup {"_"}

\* The text of a character sequence.
RECURSIVE get_text(_)
get_text(chars) ==
    IF chars = <<>> THEN "" ELSE Head(chars) \o get_text(Tail(chars))

IsComma(c) == c = ","
NotComma(c) == ~IsComma(c)
IsKept(c) == c \in KeptChars

\* name.upper().replace(',', '').replace(' ', '_'), before the re.sub.
Separated(name) ==
    LET up == [i \in DOMAIN name |-> upper(name[i])]
        nocomma == SelectSeq(up, NotComma)
    IN  [i \in DOMAIN nocomma |-> IF nocomma[i] = " " THEN "_" ELSE nocomma[i]]

\* A normalisation that drops the spaces instead of replacing them.
normalize_name_dropping_spaces(name) ==
    LET up == [i \in DOMAIN name |-> upper(name[i])]
    IN  SelectSeq(SelectSeq(up, NotComma), IsKept)

normalize_name(name) == SelectSeq(Separated(name), IsKept)

generate_inmate_id(name, county) ==
    get_text(normalize_name(name)) \o "_" \o county

\* ------------------------------------------------------------- adapters
\* What the browser page holds after an adapter navigated it.
\*   nav   : outcome of page.goto / page.wait_for_selector / page.content
\*   items : the listing elements found in the page content
NavOutcomes == {"ok", "goto_timeout", "selector_timeout", "error"}
NoPage == [nav |-> "none", items |-> <<>>]

\* A Crawford div.inmate-single block: the h2 and its anchor.
\*   "ok"        h2 with an anchor carrying an href
\*   "no_h2"     no h2 in the block
\*   "no_anchor" h2 without an anchor
\*   "no_href"   h2 with an anchor without href attribute
CrawfordLinks == {"ok", "no_h2", "no_anchor", "no_href"}
CrawfordBlocks ==
    [name : CrawfordNames, link : CrawfordLinks, href : {<<"inmate", "101">>}]

\* A Sebastian table row: the name cell and the img tag.
\*   "ok"      name cell and an img with src
\*   "no_cell" no td.col-md-4 in the row
\*   "no_img"  name cell, no img tag
\*   "no_src"  name cell, img tag without src attribute
SebastianImgs == {"ok", "no_cell", "no_img", "no_src"}
SebastianRows == [name : SebastianNames, img : SebastianImgs, src : {"photo/7.jpg"}]

SeqsUpTo(S, n) == UNION {[1..k -> S] : k \in 0..n}

CrawfordPages ==
    {[nav |-> "ok", items |-> b] : b \in SeqsUpTo(CrawfordBlocks, MaxBlocks)}
        \cup {[nav |-> o, items |-> <<>>] : o \in NavOutcomes \ {"ok"}}
SebastianPages ==
    {[nav |-> "ok", items |-> r] : r \in SeqsUpTo(SebastianRows, MaxBlocks)}
        \cup {[nav |-> o, items |-> <<>>] : o \in NavOutcomes \ {"ok"}}

CrawfordRecord(block) ==
    [inmateId |-> generate_inmate_id(block.name, "crawford"),
     name |-> get_text(block.name),
     imageUrl |-> "https://inmates.crawfordcountysheriff.org/photos/"
                    \o block.href[Len(block.href)] \o ".jpg",
     county |-> "crawford"]

SebastianRecord(row) ==
    [inmateId |-> generate_inmate_id(row.name, "sebastian"),
     name |-> get_text(row.name),
     imageUrl |-> IF row.img = "no_img" THEN "No Image"
                  ELSE "https://inmate.sebastiancountyar.gov/NewWorld.InmateInquiry/"
                         \o row.src,
     county |-> "sebastian"]

\* The for loop over the blocks: a block without h2 or anchor is skipped, a
\* missing href raises KeyError, which leaves the loop with what was appended.
RECURSIVE CrawfordLoop(_, _, _)
CrawfordLoop(blocks, i, inmates) ==
    IF i > Len(blocks) THEN [inmates |-> inmates, status |-> "ok"]
    ELSE IF blocks[i].link \in {"no_h2", "no_anchor"}
         THEN CrawfordLoop(blocks, i + 1, inmates)
    ELSE IF blocks[i].link = "no_href"
         THEN [inmates |-> inmates, status |-> "error"]
    ELSE CrawfordLoop(blocks, i + 1, Append(inmates, CrawfordRecord(blocks[i])))

\* The for loop over the rows: a row without name cell is skipped, a row
\* without img gets "No Image", an img without src raises KeyError.
RECURSIVE SebastianLoop(_, _, _)
SebastianLoop(rows, i, inmates) ==
    IF i > Len(rows) THEN [inmates |-> inmates, status |-> "ok"]
    ELSE IF rows[i].img = "no_cell"
         THEN SebastianLoop(rows, i + 1, inmates)
    ELSE IF rows[i].img = "no_src"
         THEN [inmates |-> inmates, status |-> "error"]
    ELSE SebastianLoop(rows, i + 1, Append(inmates, SebastianRecord(rows[i])))

\* The value an adapter returns and how its try block ended.
scrape_crawford_county_playwright(pg) ==
    IF pg.nav \in {"goto_timeout", "selector_timeout"}
    THEN [inmates |-> <<>>, status |-> "timeout"]
    ELSE IF pg.nav = "error" THEN [inmates |-> <<>>, status |-> "error"]
    ELSE IF pg.items = <<>> THEN [inmates |-> <<>>, status |-> "no_markers"]
    ELSE CrawfordLoop(pg.items, 1, <<>>)

scrape_sebastian_county_playwright(pg) ==
    IF pg.nav \in {"goto_timeout", "selector_timeout"}
    THEN [inmates |-> <<>>, status |-> "timeout"]
    ELSE IF pg.nav = "error" THEN [inmates |-> <<>>, status |-> "error"]
    ELSE IF pg.items = <<>> THEN [inmates |-> <<>>, status |-> "no_markers"]
    ELSE SebastianLoop(pg.items, 1, <<>>)

\* ---------------------------------------------------------------- files
\* Content of a file on disk.
\*   "absent"  the file does not exist
\*   "torn"    truncated by open(..., 'w'), the dump not (fully) flushed
\*   "garbage" text that is not JSON
\*   "array"   a JSON array (val: its elements)
\*   "object"  a JSON object (val: the mapping)
Absent == [kind |-> "absent", val |-> <<>>]
Torn == [kind |-> "torn", val |-> <<>>]
Garbage == [kind |-> "garbage", val |-> <<>>]
JsonArray(elems) == [kind |-> "array", val |-> elems]
JsonObject(map) == [kind |-> "object", val |-> map]

\* A Python value: a dict, a list, or a name not bound yet.
PyDict(map) == [type |-> "dict", val |-> map]
PyList(elems) == [type |-> "list", val |-> elems]
Unbound == [type |-> "unbound", val |-> <<>>]

Range(f) == {f[x] : x \in DOMAIN f}

\* json.load of a file that exists: the value, or JSONDecodeError.
json_load(file) ==
    IF file.kind = "object" THEN [ok |-> TRUE, value |-> PyDict(file.val)]
    ELSE IF file.kind = "array" THEN [ok |-> TRUE, value |-> PyList(file.val)]
    ELSE [ok |-> FALSE, value |-> Unbound]

\* json.dump of a value, once the file is closed.
json_dump(value) ==
    IF value.type = "dict" THEN JsonObject(value.val) ELSE JsonArray(value.val)

load_database(file) ==
    IF file.kind = "absent" THEN PyDict(<<>>)
    ELSE IF json_load(file).ok THEN json_load(file).value
    ELSE PyDict(<<>>)

\* ------------------------------------------------------- reconciliation
\* `inmate['inmateId'] not in master_db`; `in` on a dict tests the keys, on
\* a list the elements.
IsNew(inmate, db) ==
    IF db.type = "dict" THEN inmate.inmateId \notin DOMAIN db.val
    ELSE inmate.inmateId \notin Range(db.val)

\* An update that stores the record whether or not the key is known.
UpdateAlways(db, inmate, is_new) ==
    PyDict((inmate.inmateId :> inmate) @@ db.val)

\* An update that never stores the record.
UpdateNever(db, inmate, is_new) == db

\* `if is_new: master_db[inmate['inmateId']] = inmate` on a dict.
UpdateLedger(db, inmate, is_new) ==
    IF is_new THEN PyDict((inmate.inmateId :> inmate) @@ db.val) ELSE db

\* The loop over scraped_inmates.  st holds master_db, the annotated list,
\* new_inmate_count and whether a TypeError left the loop (item assignment
\* with a str index on a list).
RECURSIVE ReconcileLoop(_, _, _)
ReconcileLoop(batch, i, st) ==
    IF i > Len(batch) \/ st.raised THEN st
    ELSE LET is_new == IsNew(batch[i], st.master_db)
             inmate == batch[i] @@ ("isNew" :> is_new)
             listed == Append(st.current, inmate)
         IN  IF is_new /\ st.master_db.type # "dict"
             THEN [st EXCEPT !.current = listed, !.raised = TRUE]
             ELSE ReconcileLoop(batch, i + 1,
                    [master_db |-> UpdateLedger(st.master_db, inmate, is_new),
                     current |-> listed,
                     count |-> IF is_new THEN st.count + 1 ELSE st.count,
                     raised |-> FALSE])

Reconcile(batch, loaded) ==
    ReconcileLoop(batch, 1,
        [master_db |-> loaded, current |-> <<>>, count |-> 0, raised |-> FALSE])

\* `if not scraped_inmates` with the guard dropped.
NeverEmpty(batch) == FALSE

\* `if not scraped_inmates`
IsEmptyBatch(batch) == batch = <<>>

\* ------------------------------------------------------------ publishing
\* The order of the three save calls.
MetadataFirst == <<"metadata", "snapshot", "ledger">>

PublishOrder == <<"snapshot", "ledger", "metadata">>

\* save_metadata's content for the clock value now (minute resolution).
MetadataContent(now) == JsonObject([lastUpdatedAt |-> now])

\* The adapters' results on every page of the model.
CrawfordResult == [pg \in CrawfordPages |-> scrape_crawford_county_playwright(pg)]
SebastianResult == [pg \in SebastianPages |-> scrape_sebastian_county_playwright(pg)]

\* ----------------------------------------------------------------- state
VARIABLES
    pc,                          \* position of the script
    run,                         \* number of the current run
    now,                         \* datetime.utcnow(), in minutes
    page,                        \* the browser page's last navigation
    scraped_inmates,             \* the collected batch
    returned,                    \* what each adapter returned, while the
                                 \* browser is open
    status,                      \* how each adapter's try block ended, while
                                 \* the browser is open
    master_db,                   \* the ledger in memory
    current_inmates_with_status, \* the annotated batch
    new_inmate_count,
    saving,                      \* index in PublishOrder of the save under way
    database_file,               \* database.json
    current_inmates_file,        \* current_inmates.json
    metadata_file,               \* metadata.json
    pre,                         \* the three files when the run started
    opened,                      \* files this run opened for writing, in order
    written,                     \* files this run wrote completely, in order
    newMarks                     \* per key, the isNew = true records published

vars == <<pc, run, now, page, scraped_inmates, returned, status, master_db,
          current_inmates_with_status, new_inmate_count, saving, database_file,
          current_inmates_file, metadata_file, pre, opened, written, newMarks>>

files == [database |-> database_file, snapshot |-> current_inmates_file,
          metadata |-> metadata_file]

Running == {"crawford", "sebastian", "close", "check", "save_open", "save_dump"}
Ended == {"done", "aborted", "raised", "killed"}

NotRun == [crawford |-> "not_run", sebastian |-> "not_run"]
NothingReturned == [crawford |-> <<>>, sebastian |-> <<>>]

\* An entry a previous run stored in the ledger.
StoredEntry(id, county) ==
    [inmateId |-> id, name |-> "J. Smith",
     imageUrl |-> "https://inmates.crawfordcountysheriff.org/photos/55.jpg",
     county |-> county, isNew |-> TRUE]

\* Ledger mappings left by earlier runs.
StoredLedgers ==
    {<<>>,
     "JOHN_SMITH_crawford" :> StoredEntry("JOHN_SMITH_crawford", "crawford"),
     "JOHNSMITH_crawford" :> StoredEntry("JOHNSMITH_crawford", "crawford"),
     ("JOHN_SMITH_crawford" :> StoredEntry("JOHN_SMITH_crawford", "crawford"))
        @@ ("JANE_DOE_sebastian" :> StoredEntry("JANE_DOE_sebastian", "sebastian"))}

\* database.json before the run: missing, left truncated by a cancelled run,
\* not JSON, JSON but no object, or a stored ledger.
InitialLedgerFiles ==
    {Absent, Torn, Garbage, JsonArray(<<>>)} \cup {JsonObject(m) : m \in StoredLedgers}

\* current_inmates.json and metadata.json before the first run: none yet, or
\* those of an earlier run.
InitialOutputs ==
    {[snapshot |-> Absent, metadata |-> Absent],
     [snapshot |-> JsonArray(<<StoredEntry("JOHN_SMITH_crawford", "crawford")>>),
      metadata |-> MetadataContent(0)]}

Init ==
    /\ pc = "crawford"
    /\ run = 1
    /\ now = 1
    /\ page = NoPage
    /\ scraped_inmates = <<>>
    /\ returned = NothingReturned
    /\ status = NotRun
    /\ master_db = Unbound
    /\ current_inmates_with_status = <<>>
    /\ new_inmate_count = 0
    /\ saving = 0
    /\ database_file \in InitialLedgerFiles
    /\ \E o \in InitialOutputs :
          /\ current_inmates_file = o.snapshot
          /\ metadata_file = o.metadata
    /\ pre = files
    /\ opened = <<>>
    /\ written = <<>>
    /\ newMarks = <<>>

\* ------------------------------------------------------------ collection
ScrapeCrawford ==
    /\ pc = "crawford"
    /\ \E pg \in CrawfordPages :
          LET r == CrawfordResult[pg]
          IN  /\ page' = pg
              /\ scraped_inmates' = scraped_inmates \o r.inmates
              /\ returned' = [returned EXCEPT !.crawford = r.inmates]
              /\ status' = [status EXCEPT !.crawford = r.status]
    /\ pc' = "sebastian"
    /\ UNCHANGED <<run, now, master_db, current_inmates_with_status,
                   new_inmate_count, saving, database_file, current_inmates_file,
                   metadata_file, pre, opened, written, newMarks>>

ScrapeSebastian ==
    /\ pc = "sebastian"
    /\ \E pg \in SebastianPages :
          LET r == SebastianResult[pg]
          IN  /\ page' = pg
              /\ scraped_inmates' = scraped_inmates \o r.inmates
              /\ returned' = [returned EXCEPT !.sebastian = r.inmates]
              /\ status' = [status EXCEPT !.sebastian = r.status]
    /\ pc' = "close"
    /\ UNCHANGED <<run, now, master_db, current_inmates_with_status,
                   new_inmate_count, saving, database_file, current_inmates_file,
                   metadata_file, pre, opened, written, newMarks>>

\* browser.close()
CloseBrowser ==
    /\ pc = "close"
    /\ page' = NoPage
    /\ returned' = NothingReturned
    /\ status' = NotRun
    /\ pc' = "check"
    /\ UNCHANGED <<run, now, scraped_inmates, master_db,
                   current_inmates_with_status, new_inmate_count, saving,
                   database_file, current_inmates_file, metadata_file, pre,
                   opened, written, newMarks>>

\* --------------------------------------------------------- reconciliation
\* The `if not scraped_inmates` branch: the message, nothing else.
Abort ==
    /\ pc = "check"
    /\ IsEmptyBatch(scraped_inmates)
    /\ pc' = "aborted"
    /\ UNCHANGED <<run, now, page, scraped_inmates, returned, status, master_db,
                   current_inmates_with_status, new_inmate_count, saving,
                   database_file, current_inmates_file, metadata_file, pre,
                   opened, written, newMarks>>

\* The else branch up to the saves: load_database and the loop.
LoadAndReconcile ==
    /\ pc = "check"
    /\ ~IsEmptyBatch(scraped_inmates)
    /\ LET st == Reconcile(scraped_inmates, load_database(database_file))
       IN  /\ master_db' = st.master_db
           /\ current_inmates_with_status' = st.current
           /\ new_inmate_count' = st.count
           /\ pc' = IF st.raised THEN "raised" ELSE "save_open"
           /\ saving' = IF st.raised THEN saving ELSE 1
    /\ UNCHANGED <<run, now, page, scraped_inmates, returned, status,
                   database_file, current_inmates_file, metadata_file, pre,
                   opened, written, newMarks>>

\* ------------------------------------------------------------ publishing
\* Where the script goes once the save at index `saving` returned.
AfterSave(i) == IF i = Len(PublishOrder) THEN "done" ELSE "save_open"

MarkCount(marks, id) == IF id \in DOMAIN marks THEN marks[id] ELSE 0

\* newMarks after a snapshot with these records was published.
RECURSIVE Marked(_, _)
Marked(marks, records) ==
    IF records = <<>> THEN marks
    ELSE LET r == Head(records)
         IN  Marked(IF r.isNew
                    THEN (r.inmateId :> (MarkCount(marks, r.inmateId) + 1)) @@ marks
                    ELSE marks,
                    Tail(records))

\* save_current_inmates: open(CURRENT_INMATES_FILE, 'w') truncates the file.
OpenCurrentInmates ==
    /\ pc = "save_open"
    /\ PublishOrder[saving] = "snapshot"
    /\ current_inmates_file' = Torn
    /\ opened' = Append(opened, "snapshot")
    /\ pc' = "save_dump"
    /\ UNCHANGED <<run, now, page, scraped_inmates, returned, status, master_db,
                   current_inmates_with_status, new_inmate_count, saving,
                   database_file, metadata_file, pre, written, newMarks>>

\* save_current_inmates: json.dump and the close of the with block.
DumpCurrentInmates ==
    /\ pc = "save_dump"
    /\ PublishOrder[saving] = "snapshot"
    /\ current_inmates_file' = JsonArray(current_inmates_with_status)
    /\ written' = Append(written, "snapshot")
    /\ newMarks' = Marked(newMarks, current_inmates_with_status)
    /\ pc' = AfterSave(saving)
    /\ saving' = saving + 1
    /\ UNCHANGED <<run, now, page, scraped_inmates, returned, status, master_db,
                   current_inmates_with_status, new_inmate_count, database_file,
                   metadata_file, pre, opened>>

\* save_database: open(DATABASE_FILE, 'w').
OpenDatabase ==
    /\ pc = "save_open"
    /\ PublishOrder[saving] = "ledger"
    /\ database_file' = Torn
    /\ opened' = Append(opened, "ledger")
    /\ pc' = "save_dump"
    /\ UNCHANGED <<run, now, page, scraped_inmates, returned, status, master_db,
                   current_inmates_with_status, new_inmate_count, saving,
                   current_inmates_file, metadata_file, pre, written, newMarks>>

\* save_database: json.dump(db, f, indent=4) and the close.
DumpDatabase ==
    /\ pc = "save_dump"
    /\ PublishOrder[saving] = "ledger"
    /\ database_file' = json_dump(master_db)
    /\ written' = Append(written, "ledger")
    /\ pc' = AfterSave(saving)
    /\ saving' = saving + 1
    /\ UNCHANGED <<run, now, page, scraped_inmates, returned, status, master_db,
                   current_inmates_with_status, new_inmate_count,
                   current_inmates_file, metadata_file, pre, opened, newMarks>>

\* save_metadata: open(METADATA_FILE, 'w').
OpenMetadata ==
    /\ pc = "save_open"
    /\ PublishOrder[saving] = "metadata"
    /\ metadata_file' = Torn
    /\ opened' = Append(opened, "metadata")
    /\ pc' = "save_dump"
    /\ UNCHANGED <<run, now, page, scraped_inmates, returned, status, master_db,
                   current_inmates_with_status, new_inmate_count, saving,
                   database_file, current_inmates_file, pre, written, newMarks>>

\* save_metadata: json.dump({"lastUpdatedAt": timestamp}, ...) and the close.
DumpMetadata ==
    /\ pc = "save_dump"
    /\ PublishOrder[saving] = "metadata"
    /\ metadata_file' = MetadataContent(now)
    /\ written' = Append(written, "metadata")
    /\ pc' = AfterSave(saving)
    /\ saving' = saving + 1
    /\ UNCHANGED <<run, now, page, scraped_inmates, returned, status, master_db,
                   current_inmates_with_status, new_inmate_count, database_file,
                   current_inmates_file, pre, opened, newMarks>>

\* ----------------------------------------------------------- environment
\* open(..., 'w') or a write of json.dump raises OSError: the exception leaves
\* the script; a file already truncated stays truncated.
WriteError ==
    /\ pc \in {"save_open", "save_dump"}
    /\ pc' = "raised"
    /\ UNCHANGED <<run, now, page, scraped_inmates, returned, status, master_db,
                   current_inmates_with_status, new_inmate_count, saving,
                   database_file, current_inmates_file, metadata_file, pre,
                   opened, written, newMarks>>

\* The process is cancelled (KeyboardInterrupt, SIGKILL) where it stands.
Kill ==
    /\ pc \in Running
    /\ pc' = "killed"
    /\ UNCHANGED <<run, now, page, scraped_inmates, returned, status, master_db,
                   current_inmates_with_status, new_inmate_count, saving,
                   database_file, current_inmates_file, metadata_file, pre,
                   opened, written, newMarks>>

\* The scheduler invokes the script again: a new process, the files as left.
StartRun ==
    /\ pc \in Ended
    /\ run < MaxRuns
    /\ pre' = files
    /\ run' = run + 1
    /\ now' = now + 1
    /\ pc' = "crawford"
    /\ page' = NoPage
    /\ scraped_inmates' = <<>>
    /\ returned' = NothingReturned
    /\ status' = NotRun
    /\ master_db' = Unbound
    /\ current_inmates_with_status' = <<>>
    /\ new_inmate_count' = 0
    /\ saving' = 0
    /\ opened' = <<>>
    /\ written' = <<>>
    /\ UNCHANGED <<database_file, current_inmates_file, metadata_file, newMarks>>

\* One step of the script itself.
Step ==
    \/ ScrapeCrawford
    \/ ScrapeSebastian
    \/ CloseBrowser
    \/ Abort
    \/ LoadAndReconcile
    \/ OpenCurrentInmates
    \/ DumpCurrentInmates
    \/ OpenDatabase
    \/ DumpDatabase
    \/ OpenMetadata
    \/ DumpMetadata

\* One run from any prior files, with write errors and cancellation.
Next ==
    \/ Step
    \/ WriteError
    \/ Kill

Spec == Init /\ [][Next]_vars

\* Successive runs without faults, from a first run that finds no files or
\* a ledger left by an earlier deployment.
InitRuns ==
    /\ Init
    /\ database_file \in {Absent,
          JsonObject("JOHN_SMITH_crawford"
                        :> StoredEntry("JOHN_SMITH_crawford", "crawford"))}
    /\ current_inmates_file = Absent

NextRuns ==
    \/ Step
    \/ StartRun

SpecRuns == InitRuns /\ [][NextRuns]_vars

\* ============================================================ properties
IsPrefix(s, t) == Len(s) <= Len(t) /\ \A i \in DOMAIN s : s[i] = t[i]

\* The ledger as load_database returned it at the start of this run.
LoadedLedger == load_database(pre.database)
LoadedKeys == IF LoadedLedger.type = "dict" THEN DOMAIN LoadedLedger.val ELSE {}
BatchKeys == {scraped_inmates[i].inmateId : i \in DOMAIN scraped_inmates}

SnapshotWritten == "snapshot" \in Range(written)
LedgerWritten == "ledger" \in Range(written)
MetadataWritten == "metadata" \in Range(written)

\* C1: when the collected batch is empty the run takes the abort branch and
\* leaves database.json, current_inmates.json and metadata.json as they were
\* when the run started, whatever they held.
C1_AbortLeavesFiles ==
    /\ scraped_inmates = <<>> =>
          /\ files = pre
          /\ opened = <<>>
          /\ pc \in {"crawford", "sebastian", "close", "check", "aborted", "killed"}
    /\ pc = "aborted" => scraped_inmates = <<>>

C1_Witness ==
    /\ pc = "aborted"
    /\ database_file.kind = "object"
    /\ database_file.val # <<>>
    /\ metadata_file = MetadataContent(0)

\* C2: every record of the published snapshot has isNew = TRUE exactly when
\* its identity key was absent from the ledger as loaded at the start of the
\* run, also when two records of the batch share a key.
C2_IsNewIffAbsentAtStart ==
    SnapshotWritten =>
        \A i \in DOMAIN current_inmates_file.val :
            current_inmates_file.val[i].isNew
                = (current_inmates_file.val[i].inmateId \notin LoadedKeys)

\* C3: the saved ledger's keys are the loaded keys united with the batch's
\* keys, and every loaded entry is saved with its payload unchanged.
C3_LedgerOnlyGrows ==
    LedgerWritten =>
        /\ database_file.kind = "object"
        /\ DOMAIN database_file.val = LoadedKeys \cup BatchKeys
        /\ \A k \in LoadedKeys : database_file.val[k] = LoadedLedger.val[k]
        /\ BatchKeys \subseteq LoadedKeys => DOMAIN database_file.val = LoadedKeys

C3_Witness ==
    /\ LedgerWritten
    /\ LoadedKeys \cap BatchKeys # {}
    /\ BatchKeys \ LoadedKeys # {}
    /\ \E i \in DOMAIN scraped_inmates :
          /\ scraped_inmates[i].inmateId \in LoadedKeys
          /\ scraped_inmates[i].name # LoadedLedger.val[scraped_inmates[i].inmateId].name

\* C4: when the process is cancelled, database.json holds either the complete
\* ledger it held when the run started or the complete new ledger.
C4_AtomicLedgerSave ==
    pc = "killed" =>
        \/ database_file = pre.database
        \/ master_db.type = "dict" /\ database_file = JsonObject(master_db.val)

\* C5: with database.json missing or not a persisted mapping, load_database
\* gives an empty mapping, nothing is raised before the saves, and the run
\* reconciles as against an empty ledger.
C5_LoadNeverFails ==
    (pre.database.kind # "object" /\ pc \in {"save_open", "save_dump", "done", "raised"}) =>
        /\ pc = "raised" => saving > 0
        /\ master_db = Reconcile(scraped_inmates, PyDict(<<>>)).master_db
        /\ current_inmates_with_status
              = Reconcile(scraped_inmates, PyDict(<<>>)).current

\* C6: the files are opened and written in the order snapshot, ledger,
\* metadata; a file is opened only after the one before it was written
\* completely; metadata.json changes only in a run with a non-empty batch
\* whose snapshot and ledger writes completed.
C6_MetadataLast ==
    /\ IsPrefix(opened, <<"snapshot", "ledger", "metadata">>)
    /\ IsPrefix(written, opened)
    /\ Len(opened) <= Len(written) + 1
    /\ metadata_file # pre.metadata =>
          /\ "metadata" \in Range(opened)
          /\ SnapshotWritten /\ LedgerWritten
          /\ scraped_inmates # <<>>
          /\ current_inmates_file = JsonArray(current_inmates_with_status)
          /\ database_file = json_dump(master_db)
    /\ database_file # pre.database => SnapshotWritten
    /\ MetadataWritten => metadata_file = MetadataContent(now)

C6_Witness ==
    /\ pc = "done"
    /\ written = <<"snapshot", "ledger", "metadata">>
    /\ metadata_file # pre.metadata
    /\ pre.metadata # Absent

\* C7: an adapter whose scrape failed (timeout, missing markers, unexpected
\* error) contributed an empty slice, and when the browser is closed both
\* adapters have been invoked and the batch is the one's records followed by
\* the other's.
Failed(a) == status[a] \in {"timeout", "no_markers", "error"}

C7_FailedAdapterIsolated ==
    /\ \A a \in {"crawford", "sebastian"} : Failed(a) => returned[a] = <<>>
    /\ pc = "close" =>
          /\ status.crawford # "not_run"
          /\ status.sebastian # "not_run"
          /\ scraped_inmates = returned.crawford \o returned.sebastian

\* C8: a listing element whose detail cannot be extracted costs that record
\* only: every block with a resolvable link, and every row with a name cell
\* and a resolvable or absent image, has its record in what the adapter
\* returned.
ExtractableBlocks(items) == {i \in DOMAIN items : items[i].link = "ok"}
ExtractableRows(items) == {i \in DOMAIN items : items[i].img \in {"ok", "no_img"}}

C8_FailedRecordIsolated ==
    /\ (pc = "sebastian" /\ page.nav = "ok") =>
          /\ Len(returned.crawford) >= Cardinality(ExtractableBlocks(page.items))
          /\ \A i \in ExtractableBlocks(page.items) :
                CrawfordRecord(page.items[i]) \in Range(returned.crawford)
    /\ (pc = "close" /\ page.nav = "ok") =>
          /\ Len(returned.sebastian) >= Cardinality(ExtractableRows(page.items))
          /\ \A i \in ExtractableRows(page.items) :
                SebastianRecord(page.items[i]) \in Range(returned.sebastian)

\* The batch of the end-to-end scenario: "John Smith" from crawford, then
\* "Jane Doe" from sebastian.
ScenarioBatch ==
    /\ Len(scraped_inmates) = 2
    /\ scraped_inmates[1].name = "John Smith"
    /\ scraped_inmates[1].county = "crawford"
    /\ scraped_inmates[2].name = "Jane Doe"
    /\ scraped_inmates[2].county = "sebastian"

LedgerOnlyHolds(key) ==
    pre.database.kind = "object" /\ DOMAIN pre.database.val = {key}

\* C9 as stated: from a ledger whose only key is JOHNSMITH_crawford the run
\* on the scenario batch publishes JOHNSMITH_crawford as known and
\* JANEDOE_sebastian as new, saves a ledger of two keys and rewrites the
\* metadata.
C9_ScenarioAsStated ==
    (LedgerOnlyHolds("JOHNSMITH_crawford") /\ ScenarioBatch /\ pc = "done") =>
        /\ Len(current_inmates_file.val) = 2
        /\ current_inmates_file.val[1].inmateId = "JOHNSMITH_crawford"
        /\ ~current_inmates_file.val[1].isNew
        /\ current_inmates_file.val[2].inmateId = "JANEDOE_sebastian"
        /\ current_inmates_file.val[2].isNew
        /\ Cardinality(DOMAIN database_file.val) = 2
        /\ MetadataWritten

\* C9 amended: the keys keep the separator.  From a ledger whose only key is
\* JOHN_SMITH_crawford, the run on the scenario batch never aborts, marks
\* JOHN_SMITH_crawford known and JANE_DOE_sebastian new, and when it has run
\* to its end the snapshot holds these two records, the ledger exactly the
\* two keys, and the metadata the run's timestamp.
C9_Scenario ==
    (LedgerOnlyHolds("JOHN_SMITH_crawford") /\ ScenarioBatch) =>
        /\ pc # "aborted"
        /\ pc \in {"save_open", "save_dump", "done"} =>
              /\ Len(current_inmates_with_status) = 2
              /\ current_inmates_with_status[1].inmateId = "JOHN_SMITH_crawford"
              /\ ~current_inmates_with_status[1].isNew
              /\ current_inmates_with_status[2].inmateId = "JANE_DOE_sebastian"
              /\ current_inmates_with_status[2].isNew
        /\ pc = "done" =>
              /\ current_inmates_file = JsonArray(current_inmates_with_status)
              /\ database_file.kind = "object"
              /\ DOMAIN database_file.val = {"JOHN_SMITH_crawford", "JANE_DOE_sebastian"}
              /\ MetadataWritten
              /\ metadata_file = MetadataContent(now)

C9_Witness ==
    /\ LedgerOnlyHolds("JOHN_SMITH_crawford")
    /\ ScenarioBatch
    /\ pc = "done"

\* C10: over successive runs without faults, no identity key is published
\* with isNew = TRUE more than once.
C10_NewAtMostOnce ==
    \A k \in DOMAIN newMarks : newMarks[k] <= 1

C10_Witness ==
    /\ run = 2
    /\ pc = "done"
    /\ \E i, j \in DOMAIN current_inmates_file.val :
          /\ i < j
          /\ current_inmates_file.val[i].inmateId = current_inmates_file.val[j].inmateId
          /\ current_inmates_file.val[i].isNew
          /\ ~current_inmates_file.val[j].isNew
    /\ \E i \in DOMAIN current_inmates_file.val :
          /\ MarkCount(newMarks, current_inmates_file.val[i].inmateId) = 1
          /\ \A j \in DOMAIN current_inmates_file.val :
                current_inmates_file.val[j].inmateId = current_inmates_file.val[i].inmateId
                    => ~current_inmates_file.val[j].isNew

====
